---- MODULE Spec2Model ----
(***************************************************************************)
(* Model of the three quantum-circuit simulation scripts Deutsch.py,       *)
(* Deutsch-Jozsa.py and Grover.py.                                         *)
(*                                                                         *)
(* Numbers.  Every amplitude and gate entry the scripts compute is an      *)
(* integer divided by a power of sqrt(2).  A matrix (a qutip Qobj or a     *)
(* numpy array) is the record [m |-> rows, e |-> k]: the integer matrix m  *)
(* (a tuple of rows, a ket being a matrix of one column) divided by        *)
(* sqrt(2)^k.  Canon keeps one representative of every value, so that two  *)
(* records are equal exactly when the matrices are.  Strings are tuples of *)
(* one-character strings; indices are 1-based here and 0-based in Python.  *)
(***************************************************************************)
EXTENDS Integers, Sequences, FiniteSets, TLC

VARIABLES pc, input_string, input, needle, circuit, repeat, i,
          current_state, output, printed

vars == <<pc, input_string, input, needle, circuit, repeat, i,
          current_state, output, printed>>

\* the value of a name that is not bound yet
None == [none |-> TRUE]

\* Builds the tuple now: TLC would otherwise re-evaluate a function
\* expression at every application.
Force(s) == s \o <<>>

(***************************************************************************)
(* Linear algebra (qutip / numpy)                                          *)
(***************************************************************************)
Rows(A) == Len(A.m)
Cols(A) == Len(A.m[1])

RECURSIVE RowsAllEven(_, _)
RowsAllEven(m, r) ==
  r = 0 \/ ( (\A k \in 1..Len(m[r]) : m[r][k] % 2 = 0) /\ RowsAllEven(m, r - 1) )

RECURSIVE RowsAllZero(_, _)
RowsAllZero(m, r) ==
  r = 0 \/ ( (\A k \in 1..Len(m[r]) : m[r][k] = 0) /\ RowsAllZero(m, r - 1) )

Halve(m) ==
  Force([r \in 1..Len(m) |-> Force([k \in 1..Len(m[r]) |-> m[r][k] \div 2])])

RECURSIVE Canon(_)
\* the representative of m / sqrt(2)^e: no common factor 2 left to cancel
Canon(A) ==
  IF RowsAllZero(A.m, Len(A.m)) THEN [m |-> A.m, e |-> 0]
  ELSE IF A.e >= 2 /\ RowsAllEven(A.m, Len(A.m))
       THEN Canon([m |-> Halve(A.m), e |-> A.e - 2])
       ELSE A

Qobj(m, e) == Canon([m |-> m, e |-> e])

basis(N, k) == Qobj(Force([r \in 1..N |-> <<IF r = k + 1 THEN 1 ELSE 0>>]), 0)

qeye(N) ==
  Qobj(Force([r \in 1..N |-> Force([c \in 1..N |-> IF r = c THEN 1 ELSE 0])]), 0)

identity(N) == qeye(N)

sigmax == Qobj(<< <<0, 1>>, <<1, 0>> >>, 0)

\* hadamard_transform(1): (1/sqrt 2) [[1, 1], [1, -1]]
hadamard_transform == Qobj(<< <<1, 1>>, <<1, -1>> >>, 1)

\* cnot(): control on the first qubit, target the second
cnot == Qobj(<< <<1, 0, 0, 0>>, <<0, 1, 0, 0>>, <<0, 0, 0, 1>>, <<0, 0, 1, 0>> >>, 0)

ones(R, C) == [m |-> Force([r \in 1..R |-> Force([c \in 1..C |-> 1])]), e |-> 0]

\* Kronecker product
tensor(A, B) ==
  LET rb == Rows(B)
      cb == Cols(B)
  IN  Qobj(Force([r \in 1..(Rows(A) * rb) |->
             LET ra == A.m[((r - 1) \div rb) + 1]
                 rr == B.m[((r - 1) % rb) + 1]
             IN  Force([c \in 1..(Cols(A) * cb) |->
                    ra[((c - 1) \div cb) + 1] * rr[((c - 1) % cb) + 1]])]),
           A.e + B.e)

RECURSIVE Dot(_, _, _, _, _)
\* sum of row[k] * B[k][c] over the columns k = idx[1..t] where row is not 0
Dot(row, idx, B, c, t) ==
  IF t = 0 THEN 0
  ELSE row[idx[t]] * B[idx[t]][c] + Dot(row, idx, B, c, t - 1)

\* matrix product A * B
MatMul(A, B) ==
  LET K == Cols(A)
      C == Cols(B)
      all == Force([k \in 1..K |-> k])
  IN  Qobj(Force([r \in 1..Rows(A) |->
             LET row == A.m[r]
                 idx == SelectSeq(all, LAMBDA k : row[k] # 0)
                 n   == Len(idx)
             IN  Force([c \in 1..C |-> Dot(row, idx, B.m, c, n)])]),
           A.e + B.e)

\* A + B (entries brought to the larger power of sqrt 2; the powers differ
\* by an even number in every sum the scripts form)
RECURSIVE Pow2(_)
Pow2(k) == IF k = 0 THEN 1 ELSE 2 * Pow2(k - 1)

MatAdd(A, B) ==
  LET e  == IF A.e >= B.e THEN A.e ELSE B.e
      fa == Pow2((e - A.e) \div 2)
      fb == Pow2((e - B.e) \div 2)
  IN  Qobj(Force([r \in 1..Rows(A) |->
             Force([c \in 1..Cols(A) |-> fa * A.m[r][c] + fb * B.m[r][c]])]), e)

\* k * A for an integer k
Scale(k, A) ==
  Qobj(Force([r \in 1..Rows(A) |-> Force([c \in 1..Cols(A) |-> k * A.m[r][c]])]), A.e)

\* (1 / 2^n) * A
DivPow2(A, n) == Qobj(A.m, A.e + 2 * n)

RECURSIVE Combined(_, _)
\* the loop "X = None; for g in gates: X = tensor(X, g) if X else g"
\* over gates[1..k]
Combined(gates, k) ==
  IF k = 1 THEN gates[1] ELSE tensor(Combined(gates, k - 1), gates[k])

\* the product is defined (scipy raises ValueError: dimension mismatch otherwise)
Conformable(A, B) == Cols(A) = Rows(B)

(***************************************************************************)
(* Strings and numbers (Python / numpy built-ins)                          *)
(***************************************************************************)
\* s.find(ch): 0-based index of the first ch, or -1
find(s, ch) ==
  IF \E k \in 1..Len(s) : s[k] = ch
  THEN (CHOOSE k \in 1..Len(s) : s[k] = ch /\ \A j \in 1..(k - 1) : s[j] # ch) - 1
  ELSE -1

\* ch * n
Repeated(ch, n) == [k \in 1..n |-> ch]

RECURSIVE FloorLog2(_)
\* int(math.log(n, 2)) for n >= 1
FloorLog2(n) == IF n < 2 THEN 0 ELSE 1 + FloorLog2(n \div 2)

RECURSIVE bin(_)
\* bin(n)[2:] for n >= 0
bin(n) ==
  LET d == IF n % 2 = 0 THEN "0" ELSE "1"
  IN  IF n < 2 THEN <<d>> ELSE bin(n \div 2) \o <<d>>

\* numpy.binary_repr(num, width): zero-filled binary of num >= 0, never cut to
\* width; two's complement of num < 0 in at least width digits
binary_repr(num, width) ==
  IF num >= 0
  THEN LET b == bin(num)
       IN  IF Len(b) >= width THEN b ELSE Repeated("0", width - Len(b)) \o b
  ELSE LET pw0 == Len(bin(-num))
           pw  == IF Pow2(pw0 - 1) = -num THEN pw0 - 1 ELSE pw0
           b   == bin(Pow2(pw + 1) + num)
       IN  IF Len(b) >= width THEN b ELSE Repeated("1", width - Len(b)) \o b

(***************************************************************************)
(* Grover.py                                                               *)
(***************************************************************************)
\* needle_random(max=5): the default upper limit of the random power of 2
max == 5

\* numpy.random.randint(low, high): the integers from low up to, not
\* including, high (ValueError when there is none)
randint(low, high) == low..(high - 1)

\* needle_random(max), given the two numbers randint() returns
needle_random(drawn_power, drawn_needle) ==
  LET random_length       == Pow2(drawn_power)
      random_input_string == Repeated("0", random_length)
      random_needle       == drawn_needle
  IN  SubSeq(random_input_string, 1, random_needle) \o <<"1">>
        \o SubSeq(random_input_string, random_needle + 2, random_length)

needle_init(s) ==
  LET input_string_length == Len(s)
      required_qubits     == FloorLog2(input_string_length)
      needle_position     == find(s, "1")
      needle_binary       == binary_repr(needle_position, required_qubits)
  IN  << [string |-> s,
          string_length |-> input_string_length,
          required_qubits |-> required_qubits],
         [position |-> needle_position,
          binary |-> needle_binary,
          binary_length |-> Len(needle_binary)] >>

\* qubits with the control ket left at |0>
Grover_qubits_all_zero(inp) ==
  [k \in 1..(inp.required_qubits + 1) |-> basis(2, 0)]

\* qubits: required_qubits kets |0> and the control ket |1>
Grover_qubits(inp) ==
  [k \in 1..(inp.required_qubits + 1) |->
     IF k <= inp.required_qubits THEN basis(2, 0) ELSE basis(2, 1)]

Grover_Q(inp) == Combined(Grover_qubits(inp), inp.required_qubits + 1)

Grover_H(inp) ==
  Combined([k \in 1..(inp.required_qubits + 1) |-> hadamard_transform],
           inp.required_qubits + 1)

\* UfXI with the two gates exchanged: I for every '0', X for every '1'
UfXI_exchanged(ndl) ==
  tensor(Combined([k \in 1..ndl.binary_length |->
                     IF ndl.binary[k] = "0" THEN qeye(2) ELSE sigmax],
                  ndl.binary_length),
         qeye(2))

\* X for every '0' of the needle's binary position, I for every '1', I on control
UfXI(ndl) ==
  tensor(Combined([k \in 1..ndl.binary_length |->
                     IF ndl.binary[k] = "0" THEN sigmax ELSE qeye(2)],
                  ndl.binary_length),
         qeye(2))

\* CxNOT without its NOT: the identity
CxNOT_identity(inp) == qeye(2 * inp.string_length)

\* identity but for a NOT in the lower right corner
CxNOT(inp) ==
  LET L == inp.string_length
  IN  [m |-> Force([r \in 1..(2 * L) |-> Force([c \in 1..(2 * L) |->
               IF \/ r = c /\ r <= 2 * (L - 1)
                  \/ r = 2 * L /\ c = 2 * L - 1
                  \/ r = 2 * L - 1 /\ c = 2 * L
               THEN 1 ELSE 0])]),
       e |-> 0]

\* uf1 with the second UfXI forgotten
uf1_once(inp, ndl) == MatMul(UfXI(ndl), CxNOT(inp))

uf1(inp, ndl) == MatMul(MatMul(UfXI(ndl), CxNOT(inp)), UfXI(ndl))

uf2(inp) ==
  LET L == inp.string_length
  IN  [m |-> Force([r \in 1..(2 * L) |-> Force([c \in 1..(2 * L) |->
               LET k == (r - 1) \div 2
               IN  IF inp.string[k + 1] = "0"
                   THEN IF r = c THEN 1 ELSE 0
                   ELSE IF (c - 1) \div 2 = k /\ r # c THEN 1 ELSE 0])]),
       e |-> 0]

HxI(inp) ==
  tensor(Combined([k \in 1..inp.required_qubits |-> hadamard_transform],
                  inp.required_qubits),
         qeye(2))

XxI(inp) ==
  tensor(Combined([k \in 1..inp.required_qubits |-> sigmax], inp.required_qubits),
         qeye(2))

\* CxZI with 0 in place of the -1
CxZI_zero(inp) ==
  LET L == inp.string_length
  IN  tensor(Qobj(Force([r \in 1..L |-> Force([c \in 1..L |->
                     IF r # c THEN 0 ELSE IF r = L THEN 0 ELSE 1])]), 0),
             qeye(2))

\* +1 on the diagonal, -1 in the last diagonal entry, I on control
CxZI(inp) ==
  LET L == inp.string_length
  IN  tensor(Qobj(Force([r \in 1..L |-> Force([c \in 1..L |->
                     IF r # c THEN 0 ELSE IF r = L THEN -1 ELSE 1])]), 0),
             qeye(2))

\* dif1 with the controlled Z forgotten
dif1_no_CxZI(inp) ==
  MatMul(MatMul(MatMul(HxI(inp), XxI(inp)), XxI(inp)), HxI(inp))

dif1(inp) ==
  MatMul(MatMul(MatMul(MatMul(HxI(inp), XxI(inp)), CxZI(inp)), XxI(inp)), HxI(inp))

dif2(inp) ==
  LET n       == inp.required_qubits
      A       == DivPow2(ones(Pow2(n), Pow2(n)), n)
      Two_A   == Scale(2, A)
      Minus_I == Scale(-1, identity(Pow2(n)))
  IN  tensor(MatAdd(Minus_I, Two_A), qeye(2))

IxH(inp) ==
  tensor(Combined([k \in 1..inp.required_qubits |-> qeye(2)], inp.required_qubits),
         hadamard_transform)

\* IxX without its X: the identity on every qubit
IxX_identity(inp) ==
  tensor(Combined([k \in 1..inp.required_qubits |-> qeye(2)], inp.required_qubits),
         qeye(2))

IxX(inp) ==
  tensor(Combined([k \in 1..inp.required_qubits |-> qeye(2)], inp.required_qubits),
         sigmax)

\* circuit(input, needle): the dictionary of the combined state and the gates
Grover_circuit(inp, ndl) ==
  [Q   |-> Grover_Q(inp),
   H   |-> Grover_H(inp),
   Uf  |-> uf1(inp, ndl),
   Dif |-> dif1(inp),
   IxH |-> IxH(inp),
   IxX |-> IxX(inp)]

\* pi as numpy's float constant, to the precision that decides the floor
PiNum == 355
PiDen == 113

RECURSIVE FloorQuarterPiSqrt(_, _)
\* the largest k >= from with k <= (pi / 4) * sqrt(x), i.e.
\* (4 k PiDen)^2 <= PiNum^2 * x
FloorQuarterPiSqrt(x, from) ==
  IF (4 * (from + 1) * PiDen) * (4 * (from + 1) * PiDen) <= PiNum * PiNum * x
  THEN FloorQuarterPiSqrt(x, from + 1)
  ELSE from

RECURSIVE RoundQuarterPiSqrt(_, _)
\* the largest k >= from with k - 1/2 <= (pi / 4) * sqrt(x)
RoundQuarterPiSqrt(x, from) ==
  IF (4 * (from + 1) - 2) * PiDen * (4 * (from + 1) - 2) * PiDen <= PiNum * PiNum * x
  THEN RoundQuarterPiSqrt(x, from + 1)
  ELSE from

\* int(around((pi/4) * sqrt(2**required_qubits))), the formula repeat() rejects
Grover_repeat_round(required_qubits) == RoundQuarterPiSqrt(Pow2(required_qubits), 0)

\* the formula the comment in repeat() sets aside:
\* int(around((pi/4) * sqrt(2**required_qubits)))
repeat_around(required_qubits) == RoundQuarterPiSqrt(Pow2(required_qubits), 0)

\* repeat(required_qubits) = int((pi/4) * sqrt(2**required_qubits))
Grover_repeat(required_qubits) == FloorQuarterPiSqrt(Pow2(required_qubits), 0)

\* index (0-based) of the first largest entry of the column vector v
argmax(v) ==
  LET N == Rows(v)
  IN  (CHOOSE k \in 1..N :
         /\ \A j \in 1..N : v.m[j][1] <= v.m[k][1]
         /\ \A j \in 1..(k - 1) : v.m[j][1] < v.m[k][1]) - 1

\* index (0-based) of the first smallest entry of the column vector v
argmin(v) ==
  LET N == Rows(v)
  IN  (CHOOSE k \in 1..N :
         /\ \A j \in 1..N : v.m[j][1] >= v.m[k][1]
         /\ \A j \in 1..(k - 1) : v.m[j][1] > v.m[k][1]) - 1

Abs(x) == IF x < 0 THEN -x ELSE x

\* results(input, needle, repeat, current_state): what is printed.
\* Two different amplitudes of exactly equal magnitude are floats that may
\* differ in the last bit; bit is the outcome of comparing them with >.
Grover_results(inp, ndl, rep, state, bit) ==
  LET max_state       == argmax(state)
      max_state_value == Abs(state.m[max_state + 1][1])
      min_state       == argmin(state)
      min_state_value == Abs(state.m[min_state + 1][1])
      greater         == IF max_state_value = min_state_value /\ max_state # min_state
                         THEN bit
                         ELSE max_state_value > min_state_value
      standout        == IF greater THEN max_state ELSE min_state
      result          == standout \div 2
      check           == find(inp.string, "1")
  IN  [flag      |-> result * 2,
       position  |-> ndl.position,
       binary    |-> ndl.binary,
       repeat    |-> rep,
       qubits    |-> inp.required_qubits,
       result    |-> result,
       confirmed |-> IF result = check THEN "(confirmed)" ELSE "(error)"]

(***************************************************************************)
(* Measurement arithmetic on amplitudes v.m[k][1] / sqrt(2)^v.e            *)
(***************************************************************************)
\* numpy round(num / den), den > 0: to the nearest integer, a half to even
RoundHalfEven(num, den) ==
  LET q == num \div den
      r == num % den
  IN  IF 2 * r < den THEN q
      ELSE IF 2 * r > den THEN q + 1
      ELSE IF q % 2 = 0 THEN q ELSE q + 1

\* round(v[a]**2 + v[b]**2), a and b 0-based, v holding the doubles nearest
\* to its amplitudes.  The floats matter where the exact sum lies halfway
\* between two integers.  Under an even power of sqrt 2 the amplitudes are
\* dyadic, the float sum is exact and is rounded half to even.  Under an odd
\* power the sum is the square of one amplitude 1/sqrt 2, whose double
\* 0.7071067811865476 squares to 0.5000000000000001: it is rounded up.
RoundedProbability(v, a, b) ==
  LET num == v.m[a + 1][1] * v.m[a + 1][1] + v.m[b + 1][1] * v.m[b + 1][1]
      den == Pow2(v.e)
  IN  IF 2 * (num % den) = den /\ v.e % 2 = 1
      THEN num \div den + 1
      ELSE RoundHalfEven(num, den)

\* v[k] > 0.5, k 0-based
GreaterThanHalf(v, k) ==
  v.m[k + 1][1] > 0 /\ 4 * v.m[k + 1][1] * v.m[k + 1][1] > Pow2(v.e)

(***************************************************************************)
(* Deutsch.py                                                              *)
(***************************************************************************)
Str(a, b) == <<a, b>>

\* Deutsch_Uf with the else branch falling back to the oracle of '00'
Deutsch_Uf_default(s) ==
  IF s = Str("1", "1") THEN [exit |-> FALSE, Uf |-> tensor(qeye(2), sigmax)]
  ELSE IF s = Str("0", "1") THEN [exit |-> FALSE, Uf |-> cnot]
  ELSE IF s = Str("1", "0")
       THEN [exit |-> FALSE, Uf |-> MatMul(cnot, tensor(qeye(2), sigmax))]
  ELSE [exit |-> FALSE, Uf |-> tensor(qeye(2), qeye(2))]

\* the if / elif chain that selects Uf; exit is the else branch
Deutsch_Uf(s) ==
  IF s = Str("0", "0") THEN [exit |-> FALSE, Uf |-> tensor(qeye(2), qeye(2))]
  ELSE IF s = Str("1", "1") THEN [exit |-> FALSE, Uf |-> tensor(qeye(2), sigmax)]
  ELSE IF s = Str("0", "1") THEN [exit |-> FALSE, Uf |-> cnot]
  ELSE IF s = Str("1", "0")
       THEN [exit |-> FALSE, Uf |-> MatMul(cnot, tensor(qeye(2), sigmax))]
  ELSE [exit |-> TRUE]

\* Deutsch_run with the final Hadamard on the top qubit forgotten
Deutsch_run_no_HI(Uf) ==
  LET Q  == tensor(basis(2, 0), basis(2, 1))
      HH == tensor(hadamard_transform, hadamard_transform)
  IN  MatMul(MatMul(Uf, HH), Q)

\* result = HI * Uf * HH * Q
Deutsch_run(Uf) ==
  LET q0 == basis(2, 0)
      q1 == basis(2, 1)
      Q  == tensor(q0, q1)
      HH == tensor(hadamard_transform, hadamard_transform)
      HI == tensor(hadamard_transform, qeye(2))
  IN  MatMul(MatMul(MatMul(HI, Uf), HH), Q)

\* results(input_string, result): what is printed
Deutsch_results(s, result) ==
  LET probability_00_01 == RoundedProbability(result, 0, 1)
      probability_10_11 == RoundedProbability(result, 2, 3)
      Report(interpretation, function) ==
        [probability_00_01 |-> probability_00_01,
         probability_10_11 |-> probability_10_11,
         interpretation    |-> interpretation,
         function          |-> function]
  IN  IF probability_00_01 = 1
      THEN Report("Constant",
                  IF s = Str("0", "0") \/ s = Str("1", "1")
                  THEN "Constant (confirmed)"
                  ELSE "Error (interpretation does not match function)")
      ELSE IF probability_10_11 = 1
      THEN Report("Balanced",
                  IF s = Str("1", "0") \/ s = Str("0", "1")
                  THEN "Balanced (confirmed)"
                  ELSE "Error (interpretation does not match function)")
      ELSE Report("None", "Error (unable to interpret)")

(***************************************************************************)
(* Deutsch-Jozsa.py                                                        *)
(***************************************************************************)
DJ_H(n) == Combined([k \in 1..(n + 1) |-> hadamard_transform], n + 1)

DJ_Q(n) ==
  Combined([k \in 1..(n + 1) |-> IF k <= n THEN basis(2, 0) ELSE basis(2, 1)], n + 1)

\* DJ_HI with a Hadamard on the control qubit too
DJ_HI_control(n) == Combined([k \in 1..(n + 1) |-> hadamard_transform], n + 1)

DJ_HI(n) == tensor(Combined([k \in 1..n |-> hadamard_transform], n), qeye(2))

\* a zero matrix with 1s plotted: the identity block for '0', the swap block
\* for any other character
DJ_Uf(s) ==
  LET L == Len(s)
  IN  [m |-> Force([r \in 1..(2 * L) |-> Force([c \in 1..(2 * L) |->
               LET k == (r - 1) \div 2
               IN  IF s[k + 1] = "0"
                   THEN IF r = c THEN 1 ELSE 0
                   ELSE IF (c - 1) \div 2 = k /\ r # c THEN 1 ELSE 0])]),
       e |-> 0]

\* result = HI*Uf*H*Q
DJ_run(s) ==
  LET n == FloorLog2(Len(s))
  IN  MatMul(MatMul(MatMul(DJ_HI(n), DJ_Uf(s)), DJ_H(n)), DJ_Q(n))

\* results(input_string, result): what is printed
DJ_results(s, result) ==
  LET probability_winning_elements == RoundedProbability(result, 0, 1)
      all1 == s = Repeated("1", Len(s))
      all0 == s = Repeated("0", Len(s))
  IN  IF GreaterThanHalf(result, 0) \/ GreaterThanHalf(result, 1)
      THEN [probability    |-> probability_winning_elements,
            interpretation |-> "constant",
            confirmed      |-> IF all1 \/ all0 THEN "(confirmed)" ELSE "(error)"]
      ELSE [probability    |-> probability_winning_elements,
            interpretation |-> "balanced",
            confirmed      |-> IF (~all1) \/ (~all0) THEN "(confirmed)" ELSE "(error)"]

(***************************************************************************)
(* Input strings                                                           *)
(***************************************************************************)
\* '0' * L with a '1' at position p (0-based)
Haystack(L, p) == [k \in 1..L |-> IF k = p + 1 THEN "1" ELSE "0"]

\* the strings of exactly one '1' and power-of-two length up to 2^max
NeedleStrings ==
  {Haystack(Pow2(n), p) : <<n, p>> \in
     {q \in (1..max) \X (0..(Pow2(max) - 1)) : q[2] < Pow2(q[1])}}

\* the longest string over Alphabet the scripts are run on
MaxLen == 3

\* the most qubits repeat() is asked about
MaxRepeatQubits == 6

Alphabet == {"0", "1", "x"}

RECURSIVE Strings(_, _)
\* the strings of length L over the characters S
Strings(S, L) ==
  IF L = 0 THEN {<<>>}
  ELSE {Append(s, ch) : <<s, ch>> \in Strings(S, L - 1) \X S}

\* every string of length lo..MaxLen, of any character
AnyStrings(lo) == UNION {Strings(Alphabet, L) : L \in lo..MaxLen}

BinaryStrings(L) == Strings({"0", "1"}, L)

OnlyBits(s) == \A k \in 1..Len(s) : s[k] \in {"0", "1"}

PowerOfTwo(n) == n >= 1 /\ Pow2(FloorLog2(n)) = n

Count(s, ch) == Cardinality({k \in 1..Len(s) : s[k] = ch})

GroverStrings ==
  NeedleStrings \cup BinaryStrings(4) \cup BinaryStrings(8) \cup AnyStrings(2)

(***************************************************************************)
(* Grover.py: the script, statement by statement                           *)
(***************************************************************************)
GroverInit ==
  /\ pc = "Grover"
  /\ input_string \in GroverStrings
  /\ input = None /\ needle = None /\ circuit = None /\ repeat = None
  /\ i = 0 /\ current_state = None /\ output = None /\ printed = None

\* input,needle = needle_init(input_string)
NeedleInit ==
  /\ pc = "Grover"
  /\ input' = needle_init(input_string)[1]
  /\ needle' = needle_init(input_string)[2]
  /\ pc' = "needle_init"
  /\ UNCHANGED <<input_string, circuit, repeat, i, current_state, output, printed>>

\* circuit = circuit(input,needle); the product UfXI * CxNOT in uf1 raises
\* ValueError when the two matrices differ in size
Circuit ==
  /\ pc = "needle_init"
  /\ IF Conformable(UfXI(needle), CxNOT(input))
     THEN /\ circuit' = Grover_circuit(input, needle)
          /\ pc' = "circuit"
     ELSE /\ circuit' = [Q |-> Grover_Q(input), H |-> Grover_H(input),
                         UfXI |-> UfXI(needle), CxNOT |-> CxNOT(input)]
          /\ pc' = "ValueError"
  /\ UNCHANGED <<input_string, input, needle, repeat, i, current_state, output, printed>>

\* repeat = repeat(input['required_qubits'])
Repeat ==
  /\ pc = "circuit"
  /\ repeat' = Grover_repeat(input.required_qubits)
  /\ pc' = "repeat"
  /\ UNCHANGED <<input_string, input, needle, circuit, i, current_state, output, printed>>

\* a caller asks repeat() for the count of n qubits
RepeatCall ==
  /\ pc = "Grover"
  /\ \E n \in 1..MaxRepeatQubits :
       /\ input' = [required_qubits |-> n]
       /\ repeat' = Grover_repeat(n)
  /\ pc' = "repeat of qubits"
  /\ UNCHANGED <<input_string, needle, circuit, i, current_state, output, printed>>

\* a caller hands run_circuit() a count of its own: any from none to one more
\* than repeat() gives
RunCircuitCall ==
  /\ pc = "circuit"
  /\ repeat' \in 0..(Grover_repeat(input.required_qubits) + 1)
  /\ pc' = "repeat of caller"
  /\ UNCHANGED <<input_string, input, needle, circuit, i, current_state, output, printed>>

\* the run of the script, or else the run a caller started
Script == pc \in {"repeat", "loop", "Uf", "run_circuit"}

\* run_circuit: current_state = circuit['H'] * circuit['Q']
RunH ==
  /\ pc \in {"repeat", "repeat of caller"}
  /\ current_state' = MatMul(circuit.H, circuit.Q)
  /\ i' = 0
  /\ pc' = IF Script THEN "loop" ELSE "loop of caller"
  /\ UNCHANGED <<input_string, input, needle, circuit, repeat, output, printed>>

\* RunUf applying Dif where Uf belongs
RunUf_Dif ==
  /\ pc \in {"loop", "loop of caller"}
  /\ i < repeat
  /\ current_state' = MatMul(circuit.Dif, current_state)
  /\ pc' = IF Script THEN "Uf" ELSE "Uf of caller"
  /\ UNCHANGED <<input_string, input, needle, circuit, repeat, i, output, printed>>

\* run_circuit, in the loop: current_state = circuit['Uf'] * current_state
RunUf ==
  /\ pc \in {"loop", "loop of caller"}
  /\ i < repeat
  /\ current_state' = MatMul(circuit.Uf, current_state)
  /\ pc' = IF Script THEN "Uf" ELSE "Uf of caller"
  /\ UNCHANGED <<input_string, input, needle, circuit, repeat, i, output, printed>>

\* run_circuit, in the loop: current_state = circuit['Dif'] * current_state
RunDif ==
  /\ pc \in {"Uf", "Uf of caller"}
  /\ current_state' = MatMul(circuit.Dif, current_state)
  /\ i' = i + 1
  /\ pc' = IF Script THEN "loop" ELSE "loop of caller"
  /\ UNCHANGED <<input_string, input, needle, circuit, repeat, output, printed>>

\* run_circuit, after the loop:
\* current_state = circuit['IxX'] * circuit['IxH'] * current_state.full()
RunFinal ==
  /\ pc \in {"loop", "loop of caller"}
  /\ i >= repeat
  /\ current_state' = MatMul(MatMul(circuit.IxX, circuit.IxH), current_state)
  /\ pc' = IF Script THEN "run_circuit" ELSE "run_circuit of caller"
  /\ UNCHANGED <<input_string, input, needle, circuit, repeat, i, output, printed>>

\* results(input,needle,repeat,current_state)
Results ==
  /\ pc \in {"run_circuit", "run_circuit of caller"}
  /\ \E bit \in BOOLEAN :
       printed' = Grover_results(input, needle, repeat, current_state, bit)
  /\ pc' = IF pc = "run_circuit" THEN "results" ELSE "results of caller"
  /\ UNCHANGED <<input_string, input, needle, circuit, repeat, i, current_state, output>>

GroverNext ==
  \/ NeedleInit \/ Circuit \/ Repeat \/ RepeatCall \/ RunCircuitCall
  \/ RunH \/ RunUf \/ RunDif \/ RunFinal \/ Results

SpecGrover == GroverInit /\ [][GroverNext]_vars

\* the script from its first line: no input_string yet
NeedleRandomInit ==
  /\ pc = "needle_random"
  /\ input_string = <<>>
  /\ input = None /\ needle = None /\ circuit = None /\ repeat = None
  /\ i = 0 /\ current_state = None /\ output = None /\ printed = None

\* input_string = needle_random(m), m the default max or a lesser limit
NeedleRandom ==
  /\ pc = "needle_random"
  /\ \E m \in 1..max :
       IF randint(1, m) = {}
       THEN /\ pc' = "ValueError"
            /\ input_string' = input_string
       ELSE /\ \E drawn_power \in randint(1, m) :
                 \E drawn_needle \in randint(0, Pow2(drawn_power) - 1) :
                   input_string' = needle_random(drawn_power, drawn_needle)
            /\ pc' = "Grover"
  /\ UNCHANGED <<input, needle, circuit, repeat, i, current_state, output, printed>>

NeedleRandomNext == NeedleRandom \/ GroverNext

SpecNeedleRandom == NeedleRandomInit /\ [][NeedleRandomNext]_vars

(***************************************************************************)
(* Deutsch.py: the script, and results() called on a state of the caller's *)
(***************************************************************************)
\* the unit kets of 2^q amplitudes 0, 1/sqrt(2)^e or -1/sqrt(2)^e
UnitKets(q) ==
  LET N == Pow2(q)
      Ket(f, e) == [m |-> Force([k \in 1..N |-> <<f[k]>>]), e |-> e]
  IN  {Ket(f, e) : <<f, e>> \in
         {x \in [1..N -> {-1, 0, 1}] \X (0..q) :
            Cardinality({k \in 1..N : x[1][k] # 0}) = Pow2(x[2])}}

DeutschInit ==
  /\ pc = "Deutsch"
  /\ input_string \in AnyStrings(0)
  /\ input = None /\ needle = None /\ circuit = None /\ repeat = None
  /\ i = 0 /\ current_state = None /\ output = None /\ printed = None

\* output = circuit(input_string)
DeutschCircuit ==
  /\ pc = "Deutsch"
  /\ IF ~Deutsch_Uf(input_string).exit
     THEN /\ output' = [input_string |-> input_string,
                        result |-> Deutsch_run(Deutsch_Uf(input_string).Uf)]
          /\ pc' = "circuit"
          /\ printed' = printed
     ELSE /\ printed' = [message |-> "Input string error"]
          /\ pc' = "SystemExit"
          /\ output' = output
  /\ UNCHANGED <<input_string, input, needle, circuit, repeat, i, current_state>>

\* a caller hands results() its own final state
DeutschState ==
  /\ pc = "Deutsch"
  /\ \E result \in UnitKets(2) :
       output' = [input_string |-> input_string, result |-> result]
  /\ pc' = "state"
  /\ UNCHANGED <<input_string, input, needle, circuit, repeat, i, current_state, printed>>

\* results(output['input_string'],output['result'])
DeutschResults ==
  /\ pc \in {"circuit", "state"}
  /\ printed' = Deutsch_results(output.input_string, output.result)
  /\ pc' = IF pc = "circuit" THEN "results" ELSE "results of state"
  /\ UNCHANGED <<input_string, input, needle, circuit, repeat, i, current_state, output>>

DeutschNext == DeutschCircuit \/ DeutschState \/ DeutschResults

SpecDeutsch == DeutschInit /\ [][DeutschNext]_vars

(***************************************************************************)
(* Deutsch-Jozsa.py: the script, and results() called on a state of the    *)
(* caller's                                                                *)
(***************************************************************************)
DJStrings == BinaryStrings(2) \cup BinaryStrings(4) \cup BinaryStrings(8) \cup AnyStrings(2)

DJInit ==
  /\ pc = "DJ"
  /\ input_string \in DJStrings
  /\ input = None /\ needle = None /\ circuit = None /\ repeat = None
  /\ i = 0 /\ current_state = None /\ output = None /\ printed = None

\* output = circuit(input_string); the product HI*Uf raises ValueError when
\* the two matrices differ in size
DJCircuit ==
  /\ pc = "DJ"
  /\ LET n == FloorLog2(Len(input_string))
     IN  IF Conformable(DJ_HI(n), DJ_Uf(input_string))
         THEN /\ output' = [input_string |-> input_string,
                            result |-> DJ_run(input_string)]
              /\ circuit' = circuit
              /\ pc' = "circuit"
         ELSE /\ circuit' = [Q |-> DJ_Q(n), H |-> DJ_H(n), HI |-> DJ_HI(n),
                             Uf |-> DJ_Uf(input_string)]
              /\ output' = output
              /\ pc' = "ValueError"
  /\ UNCHANGED <<input_string, input, needle, repeat, i, current_state, printed>>

\* a caller hands results() its own final state
DJState ==
  /\ pc = "DJ"
  /\ Len(input_string) = 2
  /\ \E result \in UnitKets(2) :
       output' = [input_string |-> input_string, result |-> result]
  /\ pc' = "state"
  /\ UNCHANGED <<input_string, input, needle, circuit, repeat, i, current_state, printed>>

\* results(output['input_string'],output['result'])
DJResults ==
  /\ pc \in {"circuit", "state"}
  /\ printed' = DJ_results(output.input_string, output.result)
  /\ pc' = IF pc = "circuit" THEN "results" ELSE "results of state"
  /\ UNCHANGED <<input_string, input, needle, circuit, repeat, i, current_state, output>>

DJNext == DJCircuit \/ DJState \/ DJResults

SpecDJ == DJInit /\ [][DJNext]_vars

(***************************************************************************)
(* Properties                                                              *)
(***************************************************************************)
SingleNeedle(s) == OnlyBits(s) /\ Count(s, "1") = 1

ConstantString(s) == s = Repeated("0", Len(s)) \/ s = Repeated("1", Len(s))

BalancedString(s) == OnlyBits(s) /\ Count(s, "0") = Count(s, "1")

RECURSIVE SumSq(_, _, _)
\* sum of the squared numerators of v[a..b] (0-based): the probability of
\* measuring one of these basis states is SumSq / 2^v.e
SumSq(v, a, b) ==
  IF a > b THEN 0 ELSE v.m[b + 1][1] * v.m[b + 1][1] + SumSq(v, a, b - 1)

\* the basis states a..b carry probability 1
ProbabilityOne(v, a, b) == SumSq(v, a, b) = Pow2(v.e)

\* C1: for every length L in {4, 8, 16, 32} and every needle position p, the
\* script run on the string with its '1' at p (needle_init, circuit with uf1
\* and dif1, repeat(log2 L) iterations and the final IxX * IxH in run_circuit,
\* results) decodes result = p and prints (confirmed).
C1_GroverFindsNeedle ==
  \A L \in {4, 8, 16, 32} : \A p \in 0..(L - 1) :
    (pc = "results" /\ input_string = Haystack(L, p)) =>
      /\ repeat = Grover_repeat(FloorLog2(L))
      /\ i = repeat
      /\ printed.result = p
      /\ printed.confirmed = "(confirmed)"

C1_Witness ==
  /\ pc = "results"
  /\ input_string = Haystack(32, 31)
  /\ printed.result = 31
  /\ printed.confirmed = "(confirmed)"

\* C2 as stated: for n = 2, 3, 4 data qubits the matrix built by dif1 equals
\* entry by entry the matrix dif2 returns.
C2_DifEqual ==
  (pc = "circuit" /\ input.required_qubits \in {2, 3, 4}) =>
    circuit.Dif = dif2(input)

\* C2, amended: for n = 2, 3, 4 data qubits every entry of the matrix built by
\* dif1 is the negative of the same entry of dif2 (dif1 is (I - 2A) tensored
\* with the identity): the two are the same operator up to the global sign.
C2_DifNegated ==
  (pc = "circuit" /\ input.required_qubits \in {2, 3, 4}) =>
    circuit.Dif = Scale(-1, dif2(input))

C2_Witness ==
  /\ pc = "circuit"
  /\ input.required_qubits = 4
  /\ circuit.Dif.m[1][1] = 7 /\ circuit.Dif.m[1][3] = -1 /\ circuit.Dif.e = 6

\* C3: for every string of length 4, 8 or 16 with exactly one '1', the matrix
\* built by uf1 from the binary needle position equals entry by entry the matrix
\* uf2 plots from the string.
C3_UfEqual ==
  (pc = "circuit" /\ SingleNeedle(input_string) /\ Len(input_string) \in {4, 8, 16}) =>
    circuit.Uf = uf2(input)

C3_Witness ==
  /\ pc = "circuit"
  /\ input_string = Haystack(16, 5)
  /\ circuit.Uf.m[11][12] = 1 /\ circuit.Uf.m[12][11] = 1 /\ circuit.Uf.m[11][11] = 0
  /\ circuit.Uf.m[1][1] = 1

\* C4: the self-check of the Deutsch-Jozsa results() is sound: for every 0/1
\* string and every final state, (confirmed) is printed only when the verdict
\* agrees with the string, and a balanced verdict on an all-0 or all-1 string
\* prints (error).
C4_SelfCheckSound ==
  (pc \in {"results", "results of state"} /\ OnlyBits(output.input_string)) =>
    LET const == ConstantString(output.input_string)
    IN  /\ printed.confirmed = "(confirmed)" =>
             \/ printed.interpretation = "constant" /\ const
             \/ printed.interpretation = "balanced" /\ ~const
        /\ (printed.interpretation = "balanced" /\ const) =>
             printed.confirmed = "(error)"

\* C5: Deutsch's algorithm: circuit('00') and circuit('11') leave probability 1
\* on |00>, |01> and results prints Constant (confirmed); circuit('01') and
\* circuit('10') leave probability 1 on |10>, |11> and results prints Balanced
\* (confirmed).
C5_Deutsch ==
  /\ (pc \in {"circuit", "results"} /\ input_string \in {Str("0", "0"), Str("1", "1")}) =>
       /\ ProbabilityOne(output.result, 0, 1)
       /\ SumSq(output.result, 2, 3) = 0
       /\ pc = "results" =>
            /\ printed.interpretation = "Constant"
            /\ printed.function = "Constant (confirmed)"
  /\ (pc \in {"circuit", "results"} /\ input_string \in {Str("0", "1"), Str("1", "0")}) =>
       /\ ProbabilityOne(output.result, 2, 3)
       /\ SumSq(output.result, 0, 1) = 0
       /\ pc = "results" =>
            /\ printed.interpretation = "Balanced"
            /\ printed.function = "Balanced (confirmed)"

C5_Witness ==
  /\ pc = "results"
  /\ input_string = Str("1", "0")
  /\ ProbabilityOne(output.result, 2, 3)
  /\ printed.function = "Balanced (confirmed)"

\* C6: Deutsch-Jozsa: for every string of length 2, 4 or 8, circuit followed by
\* results prints constant (confirmed) when the string is all-0 or all-1, and
\* balanced (confirmed) when it has as many '0' as '1', in any order.
C6_DeutschJozsa ==
  (pc = "results" /\ OnlyBits(input_string) /\ Len(input_string) \in {2, 4, 8}) =>
    /\ ConstantString(input_string) =>
         /\ printed.interpretation = "constant"
         /\ printed.confirmed = "(confirmed)"
    /\ BalancedString(input_string) =>
         /\ printed.interpretation = "balanced"
         /\ printed.confirmed = "(confirmed)"

C6_Witness ==
  /\ pc = "results"
  /\ input_string = <<"0", "1", "1", "0", "1", "0", "0", "1">>
  /\ printed.interpretation = "balanced"
  /\ printed.confirmed = "(confirmed)"

\* C7: results() decodes a verdict only when one partition carries probability
\* 1: for every final state in which neither the basis states 0, 1 nor the
\* other basis states carry probability 1, no constant and no balanced verdict
\* is printed.
C7_VerdictNeedsProbabilityOne ==
  ( /\ pc \in {"results", "results of state"}
    /\ ~ProbabilityOne(output.result, 0, 1)
    /\ ~ProbabilityOne(output.result, 2, Rows(output.result) - 1) ) =>
    printed.interpretation \notin {"constant", "balanced", "Constant", "Balanced"}

\* C8: a string whose length is no power of two, or that holds a character
\* other than '0' and '1', makes the run abort before any matrix is built: no
\* oracle is built and no result is returned.
C8_InvalidStringAborts ==
  ( /\ ~PowerOfTwo(Len(input_string)) \/ ~OnlyBits(input_string)
    /\ pc \notin {"state", "results of state"} ) =>
    /\ circuit = None
    /\ output = None
    /\ pc \notin {"circuit", "results"}

\* C9: Deutsch circuit(input_string): for every string other than '00', '11',
\* '01', '10' the call prints Input string error and raises SystemExit; the
\* circuit is not run, no result is returned, and none of the four oracles is
\* used.
C9_DeutschRejects ==
  ( /\ input_string \notin {Str("0", "0"), Str("1", "1"), Str("0", "1"), Str("1", "0")}
    /\ pc \notin {"Deutsch", "state", "results of state"} ) =>
    /\ pc = "SystemExit"
    /\ printed = [message |-> "Input string error"]
    /\ output = None

C9_Witness ==
  /\ pc = "SystemExit"
  /\ input_string = Str("0", "x")
  /\ printed = [message |-> "Input string error"]

\* C10: repeat(n) is floor((pi/4) * sqrt(2^n)) for n = 1..6: 1, 1, 2, 3, 4, 6.
\* (333/106 < pi < 355/113.)
C10_RepeatIsFloor ==
  pc = "repeat of qubits" =>
    LET n == input.required_qubits
        k == repeat
    IN  /\ (4 * k * 106) * (4 * k * 106) <= 333 * 333 * Pow2(n)
        /\ 355 * 355 * Pow2(n) < (4 * (k + 1) * 113) * (4 * (k + 1) * 113)
        /\ n <= 6 => k = <<1, 1, 2, 3, 4, 6>>[n]

C10_Witness ==
  /\ pc = "repeat of qubits"
  /\ input.required_qubits = 6
  /\ repeat = 6


\* C11 as stated: at one data qubit repeat(1) returns 1 whereas rounding
\* (pi/4) * sqrt(2^1) to the nearest integer gives 2.
C11_RoundGivesTwoAtOne ==
  (pc = "repeat of qubits" /\ input.required_qubits = 1) =>
    /\ repeat = 1
    /\ repeat_around(1) = 2

\* C11, amended: at one data qubit flooring and rounding agree, repeat(1) = 1
\* and the rounded value is 1 ((pi/4) * sqrt 2 = 1.11); the two differ first at
\* two data qubits, where repeat(2) = 1 and rounding (pi/4) * 2 = 1.57 gives 2.
C11_FloorVsRound ==
  pc = "repeat of qubits" =>
    /\ input.required_qubits = 1 =>
         /\ repeat = 1
         /\ repeat_around(1) = 1
    /\ input.required_qubits = 2 =>
         /\ repeat = 1
         /\ repeat_around(2) = 2

C11_Witness ==
  /\ pc = "repeat of qubits"
  /\ input.required_qubits = 2
  /\ repeat = 1
  /\ repeat_around(input.required_qubits) = 2


\* the largest magnitude among the numerators of the column vector v
MaxAbs(v) ==
  LET N == Rows(v)
  IN  Abs(v.m[CHOOSE k \in 1..N : \A j \in 1..N : Abs(v.m[j][1]) <= Abs(v.m[k][1])][1])

\* C12: for every L in {4, 8, 16, 32} and every needle position p, the state
\* run_circuit holds after its repeat(log2 L) iterations, before the product
\* IxX * IxH is applied, has its largest magnitude exactly at the indices 2p
\* and 2p+1, and results, given this state, decodes p from it whichever of the
\* two equal magnitudes its comparison favours.
C12_DecodesWithoutFinalStep ==
  \A L \in {4, 8, 16, 32} : \A p \in 0..(L - 1) :
    (pc = "loop" /\ i >= repeat /\ input_string = Haystack(L, p)) =>
      /\ i = Grover_repeat(FloorLog2(L))
      /\ \A k \in 0..(2 * L - 1) :
           (Abs(current_state.m[k + 1][1]) = MaxAbs(current_state))
             <=> (k \in {2 * p, 2 * p + 1})
      /\ \A bit \in BOOLEAN :
           LET decoded == Grover_results(input, needle, repeat, current_state, bit)
           IN  /\ decoded.result = p
               /\ decoded.confirmed = "(confirmed)"

C12_Witness ==
  /\ pc = "loop"
  /\ input_string = Haystack(8, 5)
  /\ i = 2 /\ repeat = 2
  /\ Abs(current_state.m[11][1]) = MaxAbs(current_state)
  /\ Abs(current_state.m[12][1]) = MaxAbs(current_state)
  /\ current_state.m[11][1] = - current_state.m[12][1]
  /\ Grover_results(input, needle, repeat, current_state, TRUE).result = 5

\* C13: for every string of power-of-two length with exactly one '1', the
\* state of the run has 2^(n+1) amplitudes whose squared magnitudes sum to 1
\* after the initial H, after every Uf, after every Dif and after the final
\* IxX * IxH.
C13_UnitNorm ==
  ( /\ pc \in {"loop", "Uf", "run_circuit"}
    /\ SingleNeedle(input_string)
    /\ PowerOfTwo(Len(input_string)) ) =>
    /\ Rows(current_state) = Pow2(input.required_qubits + 1)
    /\ Cols(current_state) = 1
    /\ ProbabilityOne(current_state, 0, Rows(current_state) - 1)

C13_Witness ==
  /\ pc = "Uf"
  /\ input_string = Haystack(32, 7)
  /\ i = 3
  /\ Rows(current_state) = 64
  /\ current_state.e = 24
  /\ SumSq(current_state, 0, 63) = Pow2(24)


\* C14: for every number n >= 1 of data qubits the combined state Q, built
\* from n kets |0> followed by the control ket |1>, has 2^(n+1) entries, of
\* which exactly one is not 0: the entry at index 1, which is 1; so its squared
\* magnitudes sum to 1.
C14_Register ==
  (pc \in {"circuit", "ValueError"} /\ input.required_qubits >= 1) =>
    LET Q == circuit.Q
    IN  /\ Rows(Q) = Pow2(input.required_qubits + 1)
        /\ Cols(Q) = 1
        /\ Q.e = 0
        /\ \A k \in 0..(Rows(Q) - 1) : Q.m[k + 1][1] = IF k = 1 THEN 1 ELSE 0
        /\ SumSq(Q, 0, Rows(Q) - 1) = 1

C14_Witness ==
  /\ pc = "circuit"
  /\ input.required_qubits = 5
  /\ Rows(circuit.Q) = 64
  /\ circuit.Q.m[2][1] = 1
  /\ circuit.Q.m[1][1] = 0


RECURSIVE Iterated(_, _)
\* H applied to Q once, then k times Uf and after it Dif; every product is
\* computed before the next one starts (Rows asks for its value)
Iterated(circ, k) ==
  IF k = 0 THEN MatMul(circ.H, circ.Q)
  ELSE LET before == Iterated(circ, k - 1)
           marked == IF Rows(before) > 0 THEN MatMul(circ.Uf, before) ELSE before
       IN  IF Rows(marked) > 0 THEN MatMul(circ.Dif, marked) ELSE marked

\* C15: run_circuit(circuit, repeat) applies H to Q once, then exactly repeat
\* iterations of Uf followed by Dif, then IxH once and IxX once after it: in the
\* loop the state is (Dif Uf)^i H Q, between Uf and Dif it is Uf (Dif Uf)^i H Q
\* with i < repeat, and the state returned is IxX IxH (Dif Uf)^repeat H Q, which
\* for repeat = 0 is IxX IxH H Q.
C15_OperatorOrder ==
  /\ pc \in {"loop", "loop of caller"} =>
       /\ i <= repeat
       /\ current_state = Iterated(circuit, i)
  /\ pc \in {"Uf", "Uf of caller"} =>
       /\ i < repeat
       /\ current_state = MatMul(circuit.Uf, Iterated(circuit, i))
  /\ pc \in {"run_circuit", "run_circuit of caller"} =>
       /\ i = repeat
       /\ current_state =
            MatMul(circuit.IxX, MatMul(circuit.IxH, Iterated(circuit, repeat)))
       /\ repeat = 0 =>
            current_state =
              MatMul(circuit.IxX, MatMul(circuit.IxH, MatMul(circuit.H, circuit.Q)))

C15_Witness ==
  /\ pc = "run_circuit of caller"
  /\ repeat = 0
  /\ i = 0
  /\ input_string = Haystack(8, 2)
  /\ current_state =
       MatMul(circuit.IxX, MatMul(circuit.IxH, MatMul(circuit.H, circuit.Q)))


\* the magnitude of v[k] is less than that of w[k], k 0-based, for amplitudes
\* whose powers of sqrt 2 differ by an even number
LessMagnitude(v, w, k) ==
  LET e == IF v.e >= w.e THEN v.e ELSE w.e
  IN  Abs(v.m[k + 1][1]) * Pow2((e - v.e) \div 2)
        < Abs(w.m[k + 1][1]) * Pow2((e - w.e) \div 2)

\* what run_circuit returns after k iterations
Returned(circ, k) ==
  LET looped == Iterated(circ, k)
      IxH_   == IF Rows(looped) > 0 THEN MatMul(circ.IxH, looped) ELSE looped
  IN  IF Rows(IxH_) > 0 THEN MatMul(circ.IxX, IxH_) ELSE IxH_

\* C16: for n = 2..5 data qubits and every needle position p, the amplitude of
\* the needle (index 2p of the returned state) after repeat(n) + 1 iterations
\* is strictly smaller in magnitude than after repeat(n) iterations, and after
\* any lesser count of iterations it is not larger than after repeat(n).
C16_Overcooking ==
  ( /\ pc = "run_circuit of caller"
    /\ SingleNeedle(input_string)
    /\ input.required_qubits \in 2..5
    /\ Len(input_string) = Pow2(input.required_qubits) ) =>
    LET best == Returned(circuit, Grover_repeat(input.required_qubits))
        at   == 2 * needle.position
    IN  /\ current_state.e % 2 = best.e % 2
        /\ repeat = Grover_repeat(input.required_qubits) + 1 =>
             LessMagnitude(current_state, best, at)
        /\ repeat < Grover_repeat(input.required_qubits) =>
             ~LessMagnitude(best, current_state, at)

C16_Witness ==
  /\ pc = "run_circuit of caller"
  /\ input_string = Haystack(32, 9)
  /\ repeat = 5 /\ i = 5
  /\ Grover_repeat(input.required_qubits) = 4
  /\ LessMagnitude(current_state, Returned(circuit, 4), 18)


\* C17: in the run, after the initial H and after every Uf and every Dif, the
\* amplitude at index 2x+1 is the negative of the amplitude at index 2x for
\* every data index x (the control qubit stays in the minus state); after the
\* final IxX * IxH every amplitude at an odd index is 0, and the row results
\* flags, result*2, is an even index that holds the largest magnitude.
C17_ControlQubit ==
  /\ pc \in {"loop", "Uf", "loop of caller", "Uf of caller"} =>
       \A x \in 0..(Rows(current_state) \div 2 - 1) :
         current_state.m[2 * x + 2][1] = - current_state.m[2 * x + 1][1]
  /\ pc \in {"run_circuit", "results", "run_circuit of caller", "results of caller"} =>
       \A x \in 0..(Rows(current_state) \div 2 - 1) :
         current_state.m[2 * x + 2][1] = 0
  /\ pc \in {"results", "results of caller"} =>
       /\ printed.flag = 2 * printed.result
       /\ printed.flag \in 0..(Rows(current_state) - 1)
       /\ Abs(current_state.m[printed.flag + 1][1]) = MaxAbs(current_state)

C17_Witness ==
  /\ pc = "results"
  /\ input_string = Haystack(16, 11)
  /\ printed.flag = 22
  /\ Abs(current_state.m[23][1]) = MaxAbs(current_state)
  /\ current_state.m[23][1] # 0
  /\ current_state.m[24][1] = 0


\* C18: for every 0/1 string of length 4 or 8 that holds no '1' or more than
\* one '1', the script (needle_init, circuit, run_circuit, results) does not
\* print (confirmed): (confirmed) is printed only for strings of exactly one
\* '1'.
C18_MalformedNeverConfirmed ==
  ( /\ pc = "results"
    /\ OnlyBits(input_string)
    /\ Len(input_string) \in {4, 8}
    /\ Count(input_string, "1") # 1 ) =>
    printed.confirmed # "(confirmed)"


\* needle_random can return the string s
CanReturn(s) == ENABLED (NeedleRandom /\ pc' = "Grover" /\ input_string' = s)

\* C19: every string needle_random returns has a length that is a power of two
\* and exactly one '1'; and for every length L it can return, every position
\* 0..L-1, the last position L-1 among them, is a needle position it can return.
C19_NeedleRandomCoverage ==
  /\ pc = "Grover" =>
       /\ PowerOfTwo(Len(input_string))
       /\ SingleNeedle(input_string)
  /\ pc = "needle_random" =>
       \A n \in 1..max :
         (\E p \in 0..(Pow2(n) - 1) : CanReturn(Haystack(Pow2(n), p))) =>
           (\A p \in 0..(Pow2(n) - 1) : CanReturn(Haystack(Pow2(n), p)))

====
